---- MODULE Spec2Model ----
(***************************************************************************)
(* Model of the two codec adapters of libavcodec: the xavs2 encoder        *)
(* wrapper (src/libavcodec/libxavs2.c) and the davs2 decoder wrapper       *)
(* (src/unnamed/part_000).  The external libraries are the environment:    *)
(* their calls are modelled at the call sites of the adapters, with the    *)
(* outcomes their C API allows chosen nondeterministically.                *)
(***************************************************************************)
EXTENDS Integers, Sequences, FiniteSets, TLC

\* ------------------------------------------------------------------ bounds
NumCtx        == 2   \* encoder contexts living in the one process
MaxFrames     == 2   \* input frames the host submits per encoder context
PairFrames    == 1   \* the same, when every context is open at once
MaxPicBuffers == 2   \* input picture buffers an encoder instance owns
MaxCloses     == 2   \* close calls the host makes on one context
MaxPackets    == 2   \* data packets the host sends to the decoder
MaxDrain      == 3   \* empty packets the host sends to the decoder
MaxPacketSize == 2   \* bytes in a data packet
MaxDecoded    == 8   \* decoded_frames is counted modulo this

\* --------------------------------------------------------- program constants
NULL == 0
AV_PIX_FMT_NONE      == -1
AV_PIX_FMT_YUV420P   == 0
AV_PIX_FMT_YUV420P10 == 64
AV_PIX_FMT_NV12      == 23       \* a format that is neither of the two
XAVS2_STATE_NO_DATA   == 1
XAVS2_STATE_ENCODED   == 2
XAVS2_STATE_FLUSH_END == 4
XAVS2_TYPE_AUTO       == 0
DAVS2_ERROR      == -1
DAVS2_DEFAULT    == 0
DAVS2_GOT_FRAME  == 1
DAVS2_GOT_HEADER == 2
DAVS2_END        == 3

\* ------------------------------------------------------------ C strings
\* A C string is a sequence of one-character strings.
Digits == <<"0","1","2","3","4","5","6","7","8","9">>

RECURSIVE UDec(_)
UDec(n) == IF n < 10 THEN <<Digits[n + 1]>>
           ELSE UDec(n \div 10) \o <<Digits[(n % 10) + 1]>>

\* sprintf(buf, "%d", n)
Sprintf_d(n) == IF n < 0 THEN <<"-">> \o UDec(-n) ELSE UDec(n)

isdigit(ch) == \E d \in 1..10 : Digits[d] = ch

DigitVal(ch) == (CHOOSE d \in 1..10 : Digits[d] = ch) - 1

RECURSIVE AtoiAcc(_, _)
AtoiAcc(s, acc) == IF s = <<>> \/ ~isdigit(Head(s)) THEN acc
                   ELSE AtoiAcc(Tail(s), acc * 10 + DigitVal(Head(s)))

\* atoi(s): optional sign, then the leading decimal digits; 0 if there are none
atoi(s) == IF s = <<>> THEN 0
           ELSE IF Head(s) = "-" THEN -AtoiAcc(Tail(s), 0)
           ELSE IF Head(s) = "+" THEN AtoiAcc(Tail(s), 0)
           ELSE AtoiAcc(s, 0)

\* ------------------------------------------------------------ byte buffers
\* Buffers are sequences of bytes; C offsets are 0-based.
ByteAt(buf, off) == buf[off + 1]

memset(buf, off, val, n) ==
    [o \in 1..Len(buf) |-> IF o - 1 >= off /\ o - 1 < off + n THEN val ELSE buf[o]]

memcpy(dst, doff, src, soff, n) ==
    [o \in 1..Len(dst) |->
        IF o - 1 >= doff /\ o - 1 < doff + n THEN ByteAt(src, soff + (o - 1 - doff))
        ELSE dst[o]]

\* a uint16_t store / load through a pointer into a byte buffer
Store16(buf, off, v) ==
    [o \in 1..Len(buf) |-> IF o - 1 = off THEN v % 256
                           ELSE IF o - 1 = off + 1 THEN (v \div 256) % 256
                           ELSE buf[o]]

Load16(buf, off) == ByteAt(buf, off) + 256 * ByteAt(buf, off + 1)

RECURSIVE Pow2(_)
Pow2(n) == IF n = 0 THEN 1 ELSE 2 * Pow2(n - 1)

\* the shift left out: p_plane[i] = p_buffer[i]
Shl16_Unshifted(b, shift) == b % 65536

\* line 233: (uint16_t)(p_buffer[i] << shift_in)
Shl16(b, shift) == (b * Pow2(shift)) % 65536

\* ------------------------------------------------ host frames (AVFrame)
VideoWidth  == 2
VideoHeight == 2
HostAlign   == 8     \* the host allocates its rows padded to this many bytes
PicPad      == 1     \* samples of padding in a row of a library picture

Planes == 1..3
PlaneWidth(k) == IF k = 1 THEN VideoWidth  ELSE (VideoWidth + 1) \div 2
PlaneLines(k) == IF k = 1 THEN VideoHeight ELSE (VideoHeight + 1) \div 2

HostLinesize(k) == HostAlign * ((2 * PlaneWidth(k) + HostAlign - 1) \div HostAlign)

HostPattern(id, k, off) == (id * 89 + k * 37 + off * 13 + 200) % 256

\* The frames the host may submit: one of each format the switch distinguishes.
FrameIds == 1..3
FrameFormat(id) == IF id = 1 THEN AV_PIX_FMT_YUV420P
                   ELSE IF id = 2 THEN AV_PIX_FMT_YUV420P10
                   ELSE AV_PIX_FMT_NV12

AVFrame(id, pts) ==
    [ format   |-> FrameFormat(id),
      pts      |-> pts,
      linesize |-> [k \in Planes |-> HostLinesize(k)],
      data     |-> [k \in Planes |->
                      [o \in 1..(HostLinesize(k) * PlaneLines(k)) |-> HostPattern(id, k, o - 1)]] ]

\* ------------------------------------------- library pictures (xavs2_picture_t)
PicFill == 170   \* what a fresh picture buffer holds before the adapter writes it

\* The buffer encoder_get_buffer hands out for an instance with these sample sizes.
NewPicture(in_ss, enc_ss) ==
    [ in_sample_size  |-> in_ss,
      enc_sample_size |-> enc_ss,
      i_width   |-> [k \in Planes |-> PlaneWidth(k)],
      i_lines   |-> [k \in Planes |-> PlaneLines(k)],
      i_stride  |-> [k \in Planes |-> enc_ss * (PlaneWidth(k) + PicPad)],
      img_planes |-> [k \in Planes |->
                      [o \in 1..(enc_ss * (PlaneWidth(k) + PicPad) * PlaneLines(k)) |-> PicFill]],
      i_state |-> -1, i_pts |-> -1, i_type |-> -1 ]

\* lines 232-234: for (i = 0; i < i_width; i++) p_plane[i] = p_buffer[i] << shift_in
RECURSIVE WidenRow(_, _, _, _, _, _, _)
WidenRow(plane, poff, buffer, boff, width, shift_in, i) ==
    IF i >= width THEN plane
    ELSE WidenRow(Store16(plane, poff + 2 * i, Shl16(ByteAt(buffer, boff + i), shift_in)),
                  poff, buffer, boff, width, shift_in, i + 1)

\* lines 227-235: for each line j, memset the picture row and widen the host row
RECURSIVE WidenLines(_, _, _, _, _)
WidenLines(pic, frame, k, shift_in, j) ==
    IF j >= pic.i_lines[k] THEN pic.img_planes[k]
    ELSE LET done == WidenLines(pic, frame, k, shift_in, j + 1)
             poff == j * pic.i_stride[k]
         IN WidenRow(memset(done, poff, 0, pic.i_stride[k]), poff,
                     frame.data[k], frame.linesize[k] * j, pic.i_width[k], shift_in, 0)

WidenPlane(pic, frame, k, shift_in) == WidenLines(pic, frame, k, shift_in, 0)

\* lines 239-241 and 248-250: memcpy of i_width * in_sample_size bytes per line
RECURSIVE CopyLines(_, _, _, _)
CopyLines(pic, frame, k, j) ==
    IF j >= pic.i_lines[k] THEN pic.img_planes[k]
    ELSE memcpy(CopyLines(pic, frame, k, j + 1), pic.i_stride[k] * j,
                frame.data[k], frame.linesize[k] * j,
                pic.i_width[k] * pic.in_sample_size)

CopyPlane(pic, frame, k) == CopyLines(pic, frame, k, 0)

\* lines 221-261: the switch on frame->format
FillPicture(pic, frame, shift_in) ==
    IF frame.format = AV_PIX_FMT_YUV420P
    THEN IF pic.in_sample_size # pic.enc_sample_size
         THEN [pic EXCEPT !.img_planes = [k \in Planes |-> WidenPlane(pic, frame, k, shift_in)]]
         ELSE [pic EXCEPT !.img_planes = [k \in Planes |-> CopyPlane(pic, frame, k)]]
    ELSE IF frame.format = AV_PIX_FMT_YUV420P10
    THEN IF pic.in_sample_size = 2
         THEN [pic EXCEPT !.img_planes = [k \in Planes |-> CopyPlane(pic, frame, k)]]
         ELSE pic        \* "Unsupportted input pixel format": logged, picture untouched
    ELSE pic             \* "Unsupportted pixel format": logged, picture untouched

\* ===================================================================
\* The encoder adapter, src/libavcodec/libxavs2.c
\* ===================================================================
VARIABLES
    api,      \* line 40: the one file-scope API table pointer: NULL, 8 or 10
    cae,      \* per codec context: the AVCodecContext fields read and XAVS2EContext
    host,     \* per codec context: what the host has called so far
    xparams,  \* the library's parameter sets (xavs2_param_t), by id
    xencs,    \* the library's encoder instances, by handle
    ecall,    \* what the last encoder entry-point call did and returned
    fault     \* "none", or why the process died

Ctx == 1..NumCtx

\* ---------------------------------------------------------------- options
\* lines 308-318: the option table, with its defaults
OptionDefaults ==
    [ i_lcurow_threads |-> 5, i_frame_threads |-> 1, i_initial_qp |-> 34,
      preset_level |-> 0, intra_period |-> 4,
      b_hierarchical_reference |-> 1, num_b_frames |-> 7 ]

\* a user who set every integer option, each within the table's range
OptionUser ==
    [ i_lcurow_threads |-> 8, i_frame_threads |-> 4, i_initial_qp |-> 20,
      preset_level |-> 9, intra_period |-> 100,
      b_hierarchical_reference |-> 0, num_b_frames |-> 15 ]

\* the library parameter each option of the table is meant for
OptionParam ==
    [ i_lcurow_threads |-> "thread_rows", i_frame_threads |-> "thread_frames",
      i_initial_qp |-> "initial_qp", preset_level |-> "preset",
      intra_period |-> "intraperiod",
      b_hierarchical_reference |-> "hierarchical_ref", num_b_frames |-> "bframes" ]

OptionNames == DOMAIN OptionParam

\* How a host may open a context.  xavs2_opts is the dictionary that
\* av_dict_parse_string makes of the "xavs2-params" string; opts_set is FALSE
\* when the string is NULL.
CtxConfigs ==
    { [ pix_fmt |-> AV_PIX_FMT_YUV420P, width |-> VideoWidth, height |-> VideoHeight,
        bit_rate |-> 0, tb_num |-> 1, tb_den |-> 25,
        opt |-> OptionDefaults, opts_set |-> FALSE, xavs2_opts |-> <<>> ],
      [ pix_fmt |-> AV_PIX_FMT_YUV420P10, width |-> VideoWidth, height |-> VideoHeight,
        bit_rate |-> 1000, tb_num |-> 1001, tb_den |-> 30000,
        opt |-> OptionUser, opts_set |-> FALSE, xavs2_opts |-> <<>> ],
      [ pix_fmt |-> AV_PIX_FMT_YUV420P10, width |-> VideoWidth, height |-> VideoHeight,
        bit_rate |-> 0, tb_num |-> 1, tb_den |-> 60,
        opt |-> OptionDefaults, opts_set |-> TRUE,
        xavs2_opts |-> << <<"bitdepth", <<"8">> >>, <<"OpenGOP", <<"o","n">> >>,
                          <<"nosuchkey", <<"1">> >> >> ],
      [ pix_fmt |-> AV_PIX_FMT_NV12, width |-> VideoWidth, height |-> VideoHeight,
        bit_rate |-> 0, tb_num |-> 1, tb_den |-> 25,
        opt |-> OptionDefaults, opts_set |-> FALSE, xavs2_opts |-> <<>> ] }

\* ------------------------------------------------------- library packets
\* xavs2_outpacket_t.  ref is ghost state: "none" before the library fills the
\* packet, "filled" between encoder_encode and encoder_packet_unref, "unref" after.
ZeroPacket == [ len |-> 0, state |-> 0, pts |-> 0, dts |-> 0, stream |-> <<>>, ref |-> "none" ]

\* the bitstream the library produces for the frame with this pts
StreamOf(pts) == [b \in 1..(1 + (pts % 2)) |-> 16 * (pts + 1) + b]

CodedPacket(pts) ==
    [ len |-> 1 + (pts % 2), state |-> XAVS2_STATE_ENCODED, pts |-> pts, dts |-> pts - 1,
      stream |-> StreamOf(pts), ref |-> "filled" ]

EmptyPacket == [ len |-> 0, state |-> XAVS2_STATE_NO_DATA, pts |-> 0, dts |-> 0,
                 stream |-> <<>>, ref |-> "filled" ]

\* the packet that ends a flush; the library may attach a sequence end code
FlushEndPacket(len) ==
    [ len |-> len, state |-> XAVS2_STATE_FLUSH_END, pts |-> 0, dts |-> 0,
      stream |-> [b \in 1..len |-> 177], ref |-> "filled" ]

\* ------------------------------------------------------ library parameters
KnownKeys == { "bitdepth", "initial_qp", "width", "height", "rec", "log", "preset",
               "hierarchical_ref", "bframes", "RateControl", "TargetBitRate",
               "intraperiod", "FrameRate", "OpenGOP", "thread_rows", "thread_frames" }

\* api->opt_set2(param, key, value): < 0 for a name the library does not know
opt_set2_ret(key) == IF key \in KnownKeys THEN 0 ELSE -1

\* the value in effect for key after the calls of log: the last one made, or
\* the library's own default when the adapter never set it
RECURSIVE ParamValue(_, _)
ParamValue(log, key) ==
    IF log = <<>> THEN <<"d","e","f","a","u","l","t">>
    ELSE IF log[Len(log)][1] = key THEN log[Len(log)][2]
    ELSE ParamValue(SubSeq(log, 1, Len(log) - 1), key)

\* api->opt_get(param, "SampleShift"): encoding bit depth minus input bit depth
opt_get_SampleShift(bits, log) ==
    LET in_bits == atoi(ParamValue(log, "bitdepth"))
    IN Sprintf_d(IF bits > in_bits THEN bits - in_bits ELSE 0)

\* xavs2_api_get(bit_depth): the API table of the build for that bit depth
xavs2_api_get(bit_depth) == bit_depth

\* ------------------------------------------------------------- frame rate
\* lines 66-68, as fractions
AVS2_FRAME_RATE ==
    << <<24000, 1001>>, <<24, 1>>, <<25, 1>>, <<30000, 1001>>,
       <<30, 1>>, <<50, 1>>, <<60000, 1001>>, <<60, 1>> >>

\* lines 70-85
RECURSIVE FramerateLoop(_, _, _)
FramerateLoop(fps_num, fps_den, i) ==
    IF i < 7 /\ ~(fps_num * AVS2_FRAME_RATE[i + 1][2] <= AVS2_FRAME_RATE[i + 1][1] * fps_den)
    THEN FramerateLoop(fps_num, fps_den, i + 1)
    ELSE i

xavs2e_find_framerate_code(c) == FramerateLoop(c.tb_den, c.tb_num, 0) + 1

\* --------------------------------------------------------------- records
\* AVPacket: data is a pointer, modelled by what it holds: "null", "buf" (the
\* buffer av_new_packet allocated, whose bytes are buf) or "int" (an integer
\* stored in the pointer field, data_val)
NewAVPacket == [ data |-> "null", data_val |-> 0, buf |-> <<>>, size |-> 0, pts |-> 0, dts |-> 0 ]

NoCall ==
    [ op |-> "none", ctx |-> 0, ret |-> 0, got_packet |-> -1, pkt |-> NewAVPacket,
      via |-> NULL, frame_id |-> 0, has_pic |-> FALSE, pic |-> NewPicture(1, 1),
      get_ret |-> 0, enc_ret |-> 0, lib_packet |-> ZeroPacket, read_ref |-> "none",
      copy_ref |-> "none", pic_held |-> FALSE, destroy_arg |-> "none", created |-> NULL ]

\* priv_data as the host allocates it (zeroed), with the options the user set
NewContext(cfg) ==
    [ pix_fmt |-> cfg.pix_fmt, width |-> cfg.width, height |-> cfg.height,
      bit_rate |-> cfg.bit_rate, tb_num |-> cfg.tb_num, tb_den |-> cfg.tb_den,
      opt |-> cfg.opt, opts_set |-> cfg.opts_set, xavs2_opts |-> cfg.xavs2_opts,
      param |-> NULL, encoder |-> NULL, packet |-> ZeroPacket, api_at_init |-> NULL ]

\* --------------------------------------------------------------- xavs2e_init
\* lines 141-160: one opt_set2 call per dictionary entry
RECURSIVE DictCalls(_)
DictCalls(dict) ==
    IF dict = <<>> THEN <<>>
    ELSE LET en == Head(dict)
             i_value == IF en[2] # <<>> /\ isdigit(Head(en[2])) THEN atoi(en[2]) ELSE 0
         IN << <<en[1], Sprintf_d(i_value)>> >> \o DictCalls(Tail(dict))

\* lines 94-174: the opt_set2 calls xavs2e_init makes, in order, as <<key, value>>
InitCalls(a, bits) ==
       << <<"bitdepth", Sprintf_d(bits)>>,
          <<"initial_qp", Sprintf_d(IF bits = 8 THEN 32 ELSE 45)>>,
          <<"width", Sprintf_d(a.width)>>,
          <<"height", Sprintf_d(a.height)>>,
          <<"rec", <<"0">> >>,
          <<"log", <<"0">> >>,
          <<"preset", Sprintf_d(a.opt.preset_level)>>,
          <<"hierarchical_ref", Sprintf_d(a.opt.b_hierarchical_reference)>>,
          <<"bframes", Sprintf_d(a.opt.num_b_frames)>> >>
    \o (IF a.opts_set THEN DictCalls(a.xavs2_opts) ELSE <<>>)
    \o (IF a.bit_rate > 0
        THEN << <<"RateControl", <<"1">> >>, <<"TargetBitRate", Sprintf_d(a.bit_rate)>> >>
        ELSE <<>>)
    \o << <<"intraperiod", <<"5","0">> >>,
          <<"FrameRate", Sprintf_d(xavs2e_find_framerate_code(a))>> >>

\* the calls the library accepted
RECURSIVE Accepted(_)
Accepted(calls) ==
    IF calls = <<>> THEN <<>>
    ELSE (IF opt_set2_ret(Head(calls)[1]) >= 0 THEN <<Head(calls)>> ELSE <<>>)
         \o Accepted(Tail(calls))

\* api->encoder_create(param): a new instance of the library
NewEncoder(bits, calls) ==
    [ bits |-> bits, calls |-> calls, log |-> Accepted(calls),
      status |-> "live", destroys |-> 0, queue |-> <<>>, outstanding |-> 0,
      enc_ss |-> IF bits = 10 THEN 2 ELSE 1,
      in_ss  |-> IF atoi(ParamValue(Accepted(calls), "bitdepth")) > 8 THEN 2 ELSE 1 ]

\* lines 94-116: which API table the context's pixel format selects
InitApi(a) ==
    IF a.pix_fmt = AV_PIX_FMT_YUV420P THEN xavs2_api_get(8)
    ELSE IF a.pix_fmt = AV_PIX_FMT_YUV420P10 THEN xavs2_api_get(10)
    ELSE api

Die(why) ==
    /\ fault' = why
    /\ UNCHANGED <<api, cae, host, xparams, xencs, ecall>>

xavs2e_init(c) ==
    /\ fault = "none"
    /\ host[c].phase = "new"
    /\ LET a    == cae[c]
           api1 == InitApi(a)
       IN IF api1 = NULL
          THEN Die("null api dereferenced")                 \* line 122, api still NULL
          ELSE IF a.pix_fmt \notin {AV_PIX_FMT_YUV420P, AV_PIX_FMT_YUV420P10}
          THEN \* cae->param was never allocated: the library is handed NULL
               \/ Die("library called with null param")
               \/ /\ cae' = [cae EXCEPT ![c].api_at_init = api1]
                  /\ host' = [host EXCEPT ![c].phase = "failed"]
                  /\ ecall' = [NoCall EXCEPT !.op = "init", !.ctx = c, !.ret = -1, !.via = api1]
                  /\ UNCHANGED <<api, xparams, xencs, fault>>
          ELSE \E created \in BOOLEAN :
               LET calls == InitCalls(a, api1)
                   pid   == Len(xparams) + 1
                   hnd   == IF created THEN Len(xencs) + 1 ELSE NULL
               IN /\ api' = api1
                  /\ xparams' = Append(xparams, [calls |-> calls, destroys |-> 0])
                  /\ xencs' = IF created THEN Append(xencs, NewEncoder(api1, calls)) ELSE xencs
                  /\ cae' = [cae EXCEPT ![c].param = pid, ![c].encoder = hnd,
                                        ![c].api_at_init = api1]
                  /\ host' = [host EXCEPT ![c].phase = IF created THEN "open" ELSE "failed"]
                  /\ ecall' = [NoCall EXCEPT !.op = "init", !.ctx = c, !.via = api1,
                                             !.ret = IF hnd = NULL THEN -1 ELSE 0,
                                             !.created = hnd]
                  /\ fault' = fault

\* ------------------------------------------------------ xavs2e_encode_frame
\* api->encoder_encode(coder, pic, packet): what the library may do with the
\* instance's queue of coded frames and with the caller's packet.  A failing
\* call (ret < 0) leaves the packet as it was or clears its length.
EncodeOutcomes(inst, has_pic, pic, packet) ==
    LET q == IF has_pic THEN Append(inst.queue, CodedPacket(pic.i_pts)) ELSE inst.queue
    IN { [ ret |-> -1, packet |-> packet, queue |-> inst.queue ],
         [ ret |-> -1, packet |-> [packet EXCEPT !.len = 0], queue |-> inst.queue ] }
       \cup (IF q # <<>> THEN { [ ret |-> 0, packet |-> Head(q), queue |-> Tail(q) ] } ELSE {})
       \cup (IF has_pic THEN { [ ret |-> 0, packet |-> EmptyPacket, queue |-> q ] } ELSE {})
       \cup (IF ~has_pic /\ q = <<>>
             THEN { [ ret |-> 0, packet |-> FlushEndPacket(n), queue |-> q ] : n \in 0..1 }
             ELSE {})

\* line 188-191: dump_encoded_data, that is api->encoder_packet_unref
dump_encoded_data(packet) == [packet EXCEPT !.ref = "unref"]

\* what a read of the stream finds: its bytes while the packet is referenced;
\* once unreferenced the library may have reused the memory
StreamBytes(packet, reused) ==
    IF packet.ref = "filled" \/ ~reused THEN packet.stream
    ELSE [b \in 1..Len(packet.stream) |-> 221]

\* lines 274-287: the host packet built from the context's packet
FilledAVPacket(packet, bytes) ==
    LET alloc == [b \in 1..packet.len |-> 0]                  \* av_new_packet
        a1 == [NewAVPacket EXCEPT !.data = "buf", !.buf = alloc, !.size = packet.len]
        a2 == [a1 EXCEPT !.pts = packet.pts, !.dts = packet.dts]
        a3 == [a2 EXCEPT !.buf = memcpy(a2.buf, 0, bytes, 0, packet.len)]
        a4 == [a3 EXCEPT !.data = "int", !.data_val = packet.len]  \* pkt->data = len
    IN [a4 EXCEPT !.size = packet.len]

\* line 274
HasOutput(packet) == packet.len # 0 /\ packet.state # XAVS2_STATE_FLUSH_END

xavs2e_encode_frame(c, has_frame, fid) ==
    /\ fault = "none"
    /\ host[c].phase = "open"
    /\ IF has_frame THEN ~host[c].draining /\ host[c].nframes < host[c].maxframes ELSE fid = 1
    /\ LET h    == cae[c].encoder
           inst == xencs[h]
           call == [NoCall EXCEPT !.op = "encode", !.ctx = c, !.via = api,
                                  !.frame_id = IF has_frame THEN fid ELSE 0]
           host1 == [host EXCEPT ![c].draining = ~has_frame,
                                 ![c].nframes = IF has_frame THEN @ + 1 ELSE @]
       IN \/ \* the instance is driven through the table of another bit depth
             /\ api # inst.bits
             /\ Die("instance called through another table")
          \/ \* line 214: encoder_get_buffer fails
             /\ ecall' = [call EXCEPT !.ret = -1, !.get_ret = -1]
             /\ host' = host1
             /\ UNCHANGED <<api, cae, xparams, xencs, fault>>
          \/ \* encoder_get_buffer hands out a free picture buffer
             /\ inst.outstanding < MaxPicBuffers
             /\ LET frame == AVFrame(fid, host[c].nframes)
                    pic0  == NewPicture(inst.in_ss, inst.enc_ss)
                    shift_in == atoi(opt_get_SampleShift(inst.bits, Accepted(xparams[cae[c].param].calls)))
                    pic1  == FillPicture(pic0, frame, shift_in)
                    pic   == [pic1 EXCEPT !.i_state = 0, !.i_pts = frame.pts,
                                          !.i_type = XAVS2_TYPE_AUTO]
               IN \E out \in EncodeOutcomes(inst, has_frame, pic, cae[c].packet),
                     reused \in BOOLEAN, alloc_ok \in BOOLEAN :
                    LET packet == dump_encoded_data(out.packet)
                        held   == ~has_frame              \* line 270 passes NULL, not &pic
                        inst1  == [inst EXCEPT !.queue = out.queue,
                                               !.outstanding = IF held THEN @ + 1 ELSE @]
                        fresh  == IF out.ret >= 0 THEN out.packet ELSE ZeroPacket
                        call1  == [call EXCEPT !.has_pic = has_frame,
                                               !.pic = IF has_frame THEN pic ELSE pic0,
                                               !.enc_ret = out.ret, !.lib_packet = fresh,
                                               !.read_ref = packet.ref, !.pic_held = held]
                    IN /\ reused => HasOutput(packet)
                       /\ ~alloc_ok => HasOutput(packet)
                       /\ IF HasOutput(packet) /\ ~alloc_ok
                          THEN Die("memcpy to a null packet buffer")
                          ELSE /\ xencs' = [xencs EXCEPT ![h] = inst1]
                               /\ cae' = [cae EXCEPT ![c].packet = packet]
                               /\ host' = host1
                               /\ ecall' =
                                    IF HasOutput(packet)
                                    THEN [call1 EXCEPT !.got_packet = 1, !.copy_ref = packet.ref,
                                            !.pkt = FilledAVPacket(packet, StreamBytes(packet, reused))]
                                    ELSE [call1 EXCEPT !.got_packet = 0]
                               /\ UNCHANGED <<api, xparams, fault>>

\* -------------------------------------------------------------- xavs2e_close
xavs2e_close(c) ==
    /\ fault = "none"
    /\ host[c].phase \in {"open", "failed", "closed"}
    /\ host[c].closes < MaxCloses
    /\ LET h   == cae[c].encoder
           arg == IF h = NULL THEN "null" ELSE xencs[h].status
           pid == cae[c].param
       IN \/ \* encoder_destroy is handed no live instance, or one of another table
             /\ IF h = NULL THEN TRUE ELSE arg # "live" \/ api # xencs[h].bits
             /\ Die(IF arg = "live" THEN "instance called through another table"
                    ELSE "encoder_destroy without a live instance")
          \/ /\ xencs' = IF h = NULL THEN xencs
                         ELSE [xencs EXCEPT ![h].status = "destroyed", ![h].destroys = @ + 1]
             /\ xparams' = IF pid = NULL THEN xparams
                           ELSE [xparams EXCEPT ![pid].destroys = @ + 1]
             /\ host' = [host EXCEPT ![c].phase = "closed", ![c].closes = @ + 1]
             /\ ecall' = [NoCall EXCEPT !.op = "close", !.ctx = c, !.via = api,
                                        !.destroy_arg = arg]
             /\ UNCHANGED <<api, cae, fault>>

\* ===================================================================
\* The decoder adapter, src/unnamed/part_000
\* ===================================================================
VARIABLES
    avs2ctx,  \* DAVS2Context, with the AVCodecContext fields the adapter writes
    dhost,    \* what the host has called so far
    dlib,     \* the library's decoder instances, by handle
    dcall     \* what the last decoder entry-point call did and returned

\* davs2_picture_t.  ref is ghost state: "none" before the library fills the
\* picture, "filled" until davs2_decoder_frame_unref, "unref" after.
ZeroPicture == [ ref |-> "none", pts |-> 0, id |-> 0 ]

\* davs2_seq_info_t
ZeroHeader == [ horizontal_size |-> 0, vertical_size |-> 0, output_bitdepth |-> 0,
                bytes_per_sample |-> 0, frame_rate |-> 0 ]

\* the sequence headers a stream may carry
SeqHeaders ==
    { [ horizontal_size |-> VideoWidth, vertical_size |-> VideoHeight, output_bitdepth |-> 8,
        bytes_per_sample |-> 1, frame_rate |-> 25 ],
      [ horizontal_size |-> VideoWidth, vertical_size |-> VideoHeight, output_bitdepth |-> 10,
        bytes_per_sample |-> 2, frame_rate |-> 30 ] }

NoDecCall ==
    [ op |-> "none", returned |-> FALSE, ret |-> 0, got_frame |-> 0, size |-> 0,
      sends |-> 0, recvs |-> 0, flushes |-> 0, send_ret |-> 0, lib_ret |-> 0,
      sent_len |-> 0, sent_pts |-> 0, sent_dts |-> 0,
      copied |-> FALSE, copy_ref |-> "none", copy_id |-> 0, frame_ptr |-> "none",
      opened |-> NULL, destroy_arg |-> "none" ]

DDie(why) ==
    /\ fault' = why
    /\ UNCHANGED <<avs2ctx, dhost, dlib, dcall>>

\* ------------------------------------------------------------ ff_davs2_init
\* lines 68-79
ff_davs2_init ==
    /\ fault = "none"
    /\ dhost.phase = "new"
    /\ \E opened \in BOOLEAN, hdr \in SeqHeaders :
         LET hnd == IF opened THEN Len(dlib) + 1 ELSE NULL
         IN /\ dlib' = IF opened
                       THEN Append(dlib, [ status |-> "live", destroys |-> 0, buffered |-> <<>>,
                                           hdr |-> hdr, hdr_pending |-> TRUE ])
                       ELSE dlib
            /\ avs2ctx' = [avs2ctx EXCEPT !.decoder = hnd]
            /\ dhost' = [dhost EXCEPT !.phase = "open"]
            /\ dcall' = [NoDecCall EXCEPT !.op = "init", !.returned = TRUE, !.ret = 0,
                                          !.opened = hnd]
            /\ fault' = fault

\* ------------------------------------------------------ output_decoded_frame
\* lines 83-128.  The result is <<return value, context>>; pic and headerset are
\* the addresses of two context fields and so never NULL.  On the picture path
\* the planes of the context's out_frame are copied through the frame pointer.
output_decoded_frame(ctx, ret_type) ==
    IF ret_type = DAVS2_GOT_HEADER
    THEN LET hs == ctx.headerset
         IN << 0, [ctx EXCEPT
                     !.frame_size = (hs.horizontal_size * hs.vertical_size * 3
                                     * hs.bytes_per_sample) \div 2,
                     !.coded_width = hs.horizontal_size, !.coded_height = hs.vertical_size,
                     !.width = hs.horizontal_size, !.height = hs.vertical_size,
                     !.pix_fmt = IF hs.output_bitdepth = 10 THEN AV_PIX_FMT_YUV420P10
                                 ELSE AV_PIX_FMT_YUV420P,
                     !.framerate = hs.frame_rate] >>
    ELSE << 1, [ctx EXCEPT !.out_flag = 1, !.decoded_frames = (@ + 1) % MaxDecoded] >>

\* ----------------------------------------------------------- ff_davs2_decode
\* davs2_decoder_flush: the next buffered picture, the end, or an error
FlushOutcomes(inst) ==
    { [ ret |-> DAVS2_ERROR, filled |-> FALSE ] }
    \cup (IF inst.buffered # <<>> THEN { [ ret |-> DAVS2_GOT_FRAME, filled |-> TRUE ] }
          ELSE { [ ret |-> DAVS2_END, filled |-> FALSE ] })

\* davs2_decoder_recv_frame
RecvOutcomes(inst) ==
    { [ ret |-> DAVS2_ERROR, filled |-> FALSE ], [ ret |-> DAVS2_DEFAULT, filled |-> FALSE ] }
    \cup (IF inst.hdr_pending THEN { [ ret |-> DAVS2_GOT_HEADER, filled |-> FALSE ] } ELSE {})
    \cup (IF ~inst.hdr_pending /\ inst.buffered # <<>>
          THEN { [ ret |-> DAVS2_GOT_FRAME, filled |-> TRUE ] } ELSE {})

\* the library state and the context after a flush or recv_frame with outcome o
AfterOutput(inst, ctx, o) ==
    << [inst EXCEPT !.buffered = IF o.filled THEN Tail(@) ELSE @,
                    !.hdr_pending = IF o.ret = DAVS2_GOT_HEADER THEN FALSE ELSE @],
       [ctx EXCEPT !.out_frame = IF o.filled
                                 THEN [ ref |-> "filled", pts |-> Head(inst.buffered),
                                        id |-> Head(inst.buffered) ]
                                 ELSE @,
                   !.headerset = IF o.ret = DAVS2_GOT_HEADER THEN inst.hdr ELSE @] >>

\* line 172 and 207
davs2_decoder_frame_unref(ctx) == [ctx EXCEPT !.out_frame.ref = "unref"]

\* lines 144-155: the host's packet.  A data packet carries size bytes; an empty
\* one has size 0 and a data pointer that is NULL or not.
ff_davs2_decode(size, data_null) ==
    /\ fault = "none"
    /\ dhost.phase = "open"
    /\ IF size = 0 THEN dhost.ndrain < MaxDrain
       ELSE ~dhost.draining /\ dhost.npackets < MaxPackets /\ ~data_null
    /\ LET h     == avs2ctx.decoder
           pts   == dhost.npackets
           frame == IF data_null THEN "null" ELSE "avpkt->data"     \* line 149
           ctx0  == [avs2ctx EXCEPT !.out_flag = 0, !.frame = frame,
                        !.packet = [ len |-> size, pts |-> pts, dts |-> pts - 1 ]]
           call0 == [NoDecCall EXCEPT !.op = IF size = 0 THEN "drain" ELSE "decode",
                                      !.size = size, !.frame_ptr = frame]
           host1 == [dhost EXCEPT !.draining = (size = 0),
                                  !.ndrain = IF size = 0 THEN @ + 1 ELSE @,
                                  !.npackets = IF size = 0 THEN @ ELSE @ + 1]
       IN IF h = NULL
          THEN \* the library is handed the NULL that davs2_decoder_open returned
               DDie("library called with null decoder")
          ELSE IF size = 0
          THEN \* lines 157-178
               \E o \in FlushOutcomes(dlib[h]), survives \in BOOLEAN :
                 LET after == AfterOutput(dlib[h], ctx0, o)
                     ctx1  == [after[2] EXCEPT !.ret = o.ret]
                     call1 == [call0 EXCEPT !.flushes = 1, !.lib_ret = o.ret]
                     \* line 170: ret_type is still -1 here
                     out   == output_decoded_frame(ctx1, -1)
                 IN IF o.ret < 0
                    THEN /\ survives
                         /\ dlib' = [dlib EXCEPT ![h] = after[1]]
                         /\ avs2ctx' = ctx1
                         /\ dhost' = host1
                         /\ dcall' = [call1 EXCEPT !.returned = TRUE, !.ret = 0]
                         /\ fault' = fault
                    ELSE IF ~survives \/ data_null
                    THEN /\ ~survives
                         /\ DDie(IF data_null THEN "drain: frame written through a null pointer"
                                 ELSE "drain: frame written over the packet data")
                    ELSE /\ dlib' = [dlib EXCEPT ![h] = after[1]]
                         /\ avs2ctx' = davs2_decoder_frame_unref(out[2])
                         /\ dhost' = host1
                         /\ dcall' = [call1 EXCEPT !.returned = TRUE, !.ret = 0,
                                         !.got_frame = out[1], !.copied = TRUE,
                                         !.copy_ref = ctx1.out_frame.ref,
                                         !.copy_id = ctx1.out_frame.id]
                         /\ fault' = fault
          ELSE \* lines 179-220: one pass of the loop, len = data_size
               \E sent \in BOOLEAN, o \in RecvOutcomes(dlib[h]), survives \in BOOLEAN :
                 LET call1 == [call0 EXCEPT !.sends = 1, !.sent_len = ctx0.packet.len,
                                  !.sent_pts = ctx0.packet.pts, !.sent_dts = ctx0.packet.dts,
                                  !.send_ret = IF sent THEN size ELSE DAVS2_ERROR]
                     inst1 == [dlib[h] EXCEPT !.buffered = Append(@, pts)]
                     after == AfterOutput(inst1, ctx0, o)
                     ctx1  == after[2]
                     call2 == [call1 EXCEPT !.recvs = 1, !.lib_ret = o.ret]
                     out   == output_decoded_frame(ctx1, o.ret)
                     copies == o.ret # DAVS2_DEFAULT /\ o.ret # DAVS2_GOT_HEADER
                 IN IF ~sent
                    THEN /\ survives /\ o.ret = DAVS2_DEFAULT
                         /\ avs2ctx' = ctx0
                         /\ dhost' = host1
                         /\ dcall' = [call1 EXCEPT !.returned = TRUE, !.ret = -1]
                         /\ UNCHANGED <<dlib, fault>>
                    ELSE IF copies /\ ~survives
                    THEN DDie("frame written over the packet data")
                    ELSE /\ survives
                         /\ dlib' = [dlib EXCEPT ![h] = after[1]]
                         /\ avs2ctx' = IF o.ret # DAVS2_DEFAULT
                                       THEN davs2_decoder_frame_unref(out[2]) ELSE ctx1
                         /\ dhost' = host1
                         /\ dcall' = [call2 EXCEPT !.returned = TRUE, !.ret = size,
                                         !.got_frame = IF o.ret # DAVS2_DEFAULT THEN out[1] ELSE 0,
                                         !.copied = copies,
                                         !.copy_ref = IF copies THEN ctx1.out_frame.ref ELSE "none",
                                         !.copy_id = IF copies THEN ctx1.out_frame.id ELSE 0]
                         /\ fault' = fault

\* -------------------------------------------------------------- ff_davs2_end
\* lines 130-142
ff_davs2_end ==
    /\ fault = "none"
    /\ dhost.phase \in {"open", "closed"}
    /\ dhost.closes < MaxCloses
    /\ LET h == avs2ctx.decoder
       IN /\ dlib' = IF h # NULL
                     THEN [dlib EXCEPT ![h].status = "destroyed", ![h].destroys = @ + 1]
                     ELSE dlib
          /\ avs2ctx' = [avs2ctx EXCEPT !.decoder = NULL]
          /\ dhost' = [dhost EXCEPT !.phase = "closed", !.closes = @ + 1]
          /\ dcall' = [NoDecCall EXCEPT !.op = "close", !.returned = TRUE,
                          !.destroy_arg = IF h = NULL THEN "none" ELSE dlib[h].status]
          /\ fault' = fault

\* ------------------------------------------------------------ specification
evars == <<api, cae, host, xparams, xencs, ecall>>
dvars == <<avs2ctx, dhost, dlib, dcall>>
vars  == <<api, cae, host, xparams, xencs, ecall, avs2ctx, dhost, dlib, dcall, fault>>

\* the decoder's priv_data as the host allocates it (zeroed)
DecIdle ==
    /\ avs2ctx = [ decoder |-> NULL, out_flag |-> 0, decoded_frames |-> 0, ret |-> 0,
                   frame |-> "none", packet |-> [ len |-> 0, pts |-> 0, dts |-> 0 ],
                   out_frame |-> ZeroPicture, headerset |-> ZeroHeader,
                   frame_size |-> 0, coded_width |-> 0, coded_height |-> 0,
                   width |-> 0, height |-> 0, pix_fmt |-> AV_PIX_FMT_NONE, framerate |-> 0 ]
    /\ dhost = [ phase |-> "new", npackets |-> 0, ndrain |-> 0, draining |-> FALSE, closes |-> 0 ]
    /\ dlib = <<>>
    /\ dcall = NoDecCall

\* no encoder context exists
EncIdle ==
    /\ api = NULL
    /\ cae = [c \in Ctx |-> NewContext(CHOOSE cfg \in CtxConfigs : cfg.pix_fmt = AV_PIX_FMT_YUV420P)]
    /\ host = [c \in Ctx |-> [phase |-> "absent", nframes |-> 0,
                              maxframes |-> 0, draining |-> FALSE, closes |-> 0]]
    /\ xparams = <<>>
    /\ xencs = <<>>
    /\ ecall = NoCall

\* one codec context is opened, the others are never used
EncInit ==
    /\ api = NULL
    /\ cae \in [Ctx -> {NewContext(cfg) : cfg \in CtxConfigs}]
    /\ \A c \in Ctx : c # 1 => cae[c] = cae[1]
    /\ host = [c \in Ctx |-> [phase |-> IF c = 1 THEN "new" ELSE "absent", nframes |-> 0,
                              maxframes |-> MaxFrames, draining |-> FALSE, closes |-> 0]]
    /\ xparams = <<>>
    /\ xencs = <<>>
    /\ ecall = NoCall
    /\ fault = "none"
    /\ DecIdle

\* every codec context is opened with a pixel format the codec lists (line 342)
\* and no "xavs2-params" string, each with fewer frames
EncPairInit ==
    /\ api = NULL
    /\ cae \in [Ctx -> {NewContext(cfg) : cfg \in {x \in CtxConfigs :
                                    x.pix_fmt # AV_PIX_FMT_NV12 /\ ~x.opts_set}}]
    /\ host = [c \in Ctx |-> [phase |-> "new", nframes |-> 0,
                              maxframes |-> PairFrames, draining |-> FALSE, closes |-> 0]]
    /\ xparams = <<>>
    /\ xencs = <<>>
    /\ ecall = NoCall
    /\ fault = "none"
    /\ DecIdle

EncNext ==
    \/ \E c \in Ctx : xavs2e_init(c) /\ UNCHANGED dvars
    \/ \E c \in Ctx, has_frame \in BOOLEAN, fid \in FrameIds :
          xavs2e_encode_frame(c, has_frame, fid) /\ UNCHANGED dvars
    \/ \E c \in Ctx : xavs2e_close(c) /\ UNCHANGED dvars

SpecEnc == EncInit /\ [][EncNext]_vars

SpecEncPair == EncPairInit /\ [][EncNext]_vars

DecInit == EncIdle /\ DecIdle /\ fault = "none"

DecNext ==
    \/ ff_davs2_init /\ UNCHANGED evars
    \/ \E size \in 0..MaxPacketSize, data_null \in BOOLEAN :
          ff_davs2_decode(size, data_null) /\ UNCHANGED evars
    \/ ff_davs2_end /\ UNCHANGED evars

SpecDec == DecInit /\ [][DecNext]_vars

\* ===================================================================
\* The claims
\* ===================================================================

\* C1: draining the decoder.  A call of ff_davs2_decode with an empty packet
\* terminates, and when it returns it reports got_frame = 1 only if this call's
\* davs2_decoder_flush delivered a picture; once the library has nothing left
\* (flush returns no frame) it reports got_frame = 0.
C1_DrainReportsDelivered ==
    /\ fault \notin { "drain: frame written through a null pointer",
                      "drain: frame written over the packet data" }
    /\ (dcall.op = "drain" /\ dcall.returned)
          => (dcall.got_frame = 1 <=> dcall.lib_ret = DAVS2_GOT_FRAME)

\* C2: every xavs2e_encode_frame call that returns 0 sets *got_packet to 0 or 1,
\* and to 1 exactly when the library returned, in this call, a non-empty packet
\* whose state is not XAVS2_STATE_FLUSH_END (so no packet is reported twice).
C2_PacketReported ==
    (ecall.op = "encode" /\ ecall.ret = 0)
       => /\ ecall.got_packet \in {0, 1}
          /\ ecall.got_packet = 1 <=> HasOutput(ecall.lib_packet)

\* C3: a null handle from encoder_create or davs2_decoder_open, or a negative
\* return of encoder_get_buffer, encoder_encode, davs2_decoder_send_packet,
\* davs2_decoder_recv_frame or davs2_decoder_flush, makes the entry point that
\* made the call return a negative value.
C3_ErrorsSurface ==
    /\ (ecall.op = "init" /\ ecall.created = NULL) => ecall.ret < 0
    /\ (ecall.op = "encode" /\ (ecall.get_ret < 0 \/ ecall.enc_ret < 0)) => ecall.ret < 0
    /\ (dcall.op = "init" /\ dcall.opened = NULL) => dcall.ret < 0
    /\ (dcall.op \in {"decode", "drain"} /\ dcall.returned
          /\ (dcall.send_ret < 0 \/ dcall.lib_ret < 0)) => dcall.ret < 0

\* C4: the library's destroy function is called exactly once for each handle
\* its create function returned, and never with a null or already destroyed one.
C4_DestroyOncePerHandle ==
    /\ \A h \in DOMAIN xencs : xencs[h].destroys <= 1
    /\ \A h \in DOMAIN dlib : dlib[h].destroys <= 1
    /\ ecall.destroy_arg \in {"none", "live"}
    /\ dcall.destroy_arg \in {"none", "live"}
    /\ fault # "encoder_destroy without a live instance"
    /\ \A c \in Ctx : (host[c].phase = "closed" /\ cae[c].encoder # NULL)
                         => xencs[cae[c].encoder].destroys = 1
    /\ dhost.phase = "closed" => \A h \in DOMAIN dlib : dlib[h].destroys = 1

\* C5: the adapters read a library-owned output buffer only between the call
\* that filled it and its unref: the encoder's packet fields and stream bytes,
\* the decoder's picture planes.
C5_ReadWhileReferenced ==
    /\ (ecall.op = "encode" /\ ecall.get_ret >= 0) => ecall.read_ref = "filled"
    /\ (ecall.op = "encode" /\ ecall.got_packet = 1) => ecall.copy_ref = "filled"
    /\ dcall.copied => dcall.copy_ref = "filled"

\* C6: when xavs2e_encode_frame returns with *got_packet = 1, pkt->data still
\* refers to the buffer av_new_packet allocated, the buffer holds the packet.len
\* bytes of the library's stream, pkt->size is packet.len and pkt->pts, pkt->dts
\* are the library packet's.
C6_PacketContent ==
    (ecall.op = "encode" /\ ecall.got_packet = 1)
       => LET packet == cae[ecall.ctx].packet
          IN /\ ecall.pkt.data = "buf"
             /\ ecall.pkt.buf = packet.stream
             /\ ecall.pkt.size = packet.len
             /\ ecall.pkt.pts = packet.pts
             /\ ecall.pkt.dts = packet.dts

\* the frame the last encode call was given, and SampleShift as the library
\* reports it for that context
C7_Frame == AVFrame(ecall.frame_id, ecall.pic.i_pts)

C7_SampleShift ==
    atoi(opt_get_SampleShift(xencs[cae[ecall.ctx].encoder].bits,
                             Accepted(xparams[cae[ecall.ctx].param].calls)))

C7_Widened ==
    /\ ecall.op = "encode" /\ ecall.has_pic
    /\ C7_Frame.format = AV_PIX_FMT_YUV420P
    /\ ecall.pic.in_sample_size # ecall.pic.enc_sample_size

C7_Copied ==
    /\ ecall.op = "encode" /\ ecall.has_pic
    /\ \/ /\ C7_Frame.format = AV_PIX_FMT_YUV420P
          /\ ecall.pic.in_sample_size = ecall.pic.enc_sample_size
       \/ /\ C7_Frame.format = AV_PIX_FMT_YUV420P10
          /\ ecall.pic.in_sample_size = 2

\* C7: the picture handed to encoder_encode.  For a YUV420P frame and a
\* picture whose in_sample_size differs from enc_sample_size, every 16-bit
\* picture sample (k, j, i) is the host's 8-bit sample data[k][linesize[k]*j + i]
\* shifted left by SampleShift; when the sizes are equal, and for YUV420P10
\* with in_sample_size 2, the first i_width[k] * in_sample_size bytes of each
\* picture row are the bytes of the host row.
C7_PlaneConversion ==
    LET pic == ecall.pic
        frame == C7_Frame
    IN /\ C7_Widened =>
            \A k \in Planes : \A j \in 0..(pic.i_lines[k] - 1) : \A i \in 0..(pic.i_width[k] - 1) :
               Load16(pic.img_planes[k], j * pic.i_stride[k] + 2 * i)
                 = ByteAt(frame.data[k], frame.linesize[k] * j + i) * Pow2(C7_SampleShift)
       /\ C7_Copied =>
            \A k \in Planes : \A j \in 0..(pic.i_lines[k] - 1) :
               \A b \in 0..(pic.i_width[k] * pic.in_sample_size - 1) :
                  ByteAt(pic.img_planes[k], pic.i_stride[k] * j + b)
                    = ByteAt(frame.data[k], frame.linesize[k] * j + b)

\* C7 witness: a YUV420P frame was widened into a picture of 16-bit samples
\* with a shift of 2, and a widened sample no longer fits 8 bits
C7_WidenedSeen ==
    /\ C7_Widened
    /\ C7_SampleShift = 2
    /\ \E k \in Planes : Load16(ecall.pic.img_planes[k], 0) > 255

\* C8: every integer option of the option table reaches the library: the value
\* in the context is passed to opt_set2 for the option's parameter before
\* encoder_create, and is the value in effect in the parameter set created from.
C8_OptionsMarshalled ==
    (ecall.op = "init" /\ cae[ecall.ctx].param # NULL)
       => LET calls == xparams[cae[ecall.ctx].param].calls
          IN \A name \in OptionNames :
               LET want == <<OptionParam[name], Sprintf_d(cae[ecall.ctx].opt[name])>>
               IN /\ \E n \in DOMAIN calls : calls[n] = want
                  /\ ParamValue(Accepted(calls), OptionParam[name]) = want[2]

\* C9: every library call made for a context goes through the API table that
\* context obtained at its init, and the table is not NULL when dereferenced.
C9_PerContextApi ==
    /\ ecall.op \in {"encode", "close"} => ecall.via = cae[ecall.ctx].api_at_init
    /\ fault # "null api dereferenced"
    /\ fault # "instance called through another table"

\* C10: every picture buffer xavs2e_encode_frame obtains with encoder_get_buffer
\* goes back to the library through encoder_encode in the same call, so between
\* calls no instance has a picture buffer outstanding.
C10_NoPictureHeld ==
    /\ ecall.op = "encode" => ~ecall.pic_held
    /\ \A h \in DOMAIN xencs : xencs[h].outstanding = 0

\* C11: a ff_davs2_decode call with a non-empty packet on which
\* davs2_decoder_send_packet does not return DAVS2_ERROR makes exactly one
\* send_packet call carrying the whole packet (len = avpkt->size, with its pts
\* and dts), then exactly one recv_frame call, returns avpkt->size, and sets
\* *got_frame to 1 only if recv_frame delivered a picture; a sequence header
\* alone updates the context's width, height and pixel format and leaves
\* *got_frame at 0.
C11_DataPacketStep ==
    (dcall.op = "decode" /\ dcall.returned /\ dcall.send_ret # DAVS2_ERROR)
       => /\ dcall.sends = 1 /\ dcall.recvs = 1
          /\ dcall.sent_len = dcall.size
          /\ dcall.sent_pts = dhost.npackets - 1
          /\ dcall.sent_dts = dhost.npackets - 2
          /\ dcall.ret = dcall.size
          /\ dcall.got_frame = 1 => dcall.lib_ret = DAVS2_GOT_FRAME
          /\ dcall.lib_ret = DAVS2_GOT_HEADER =>
                /\ dcall.got_frame = 0
                /\ avs2ctx.width = avs2ctx.headerset.horizontal_size
                /\ avs2ctx.height = avs2ctx.headerset.vertical_size
                /\ avs2ctx.pix_fmt = IF avs2ctx.headerset.output_bitdepth = 10
                                     THEN AV_PIX_FMT_YUV420P10 ELSE AV_PIX_FMT_YUV420P

====
